---- MODULE Spec2Model ----
(***************************************************************************)
(* ZipSquash (src/src/zip_squash.rs): an iterator adaptor that zips two    *)
(* ExactSizeIterators and skips elements of the longer one.  The model     *)
(* keeps the two underlying iterators as slice iterators over 0..len-1     *)
(* (an element is identified by its position), and the four f32 fields     *)
(* bit-exactly: a non-negative f32 is [cls, m, e] with value m * 2^e and   *)
(* 2^23 <= m < 2^24 (m = 0 for zero), or +infinity, or NaN.  Every         *)
(* arithmetic operation rounds to nearest, ties to even, as IEEE-754       *)
(* binary32 does.  All intermediate integers stay below 2^31.              *)
(***************************************************************************)
EXTENDS Integers, Sequences, FiniteSets, TLC

\* ------------------------------------------------------------------ bounds
MaxLen == 10
MaxPulls == 12

\* ------------------------------------------------------------ f32 values
MANTISSA_DIGITS == 24

Pow2(k) == 2 ^ k

F32(m, e) == [cls |-> "fin", m |-> m, e |-> e]
Zero == F32(0, 0)
Inf == [cls |-> "inf", m |-> 0, e |-> 0]
NaN == [cls |-> "nan", m |-> 0, e |-> 0]
One == F32(Pow2(MANTISSA_DIGITS - 1), 1 - MANTISSA_DIGITS)

IsNaN(x) == x.cls = "nan"
IsInf(x) == x.cls = "inf"
IsZero(x) == x.cls = "fin" /\ x.m = 0

RECURSIVE BitLen(_)
BitLen(n) == IF n = 0 THEN 0 ELSE 1 + BitLen(n \div 2)

RECURSIVE Normalize(_, _)
\* the f32 of an exactly representable n * 2^e, 0 <= n < 2^24
Normalize(n, e) ==
    IF n = 0 THEN Zero
    ELSE IF n >= Pow2(MANTISSA_DIGITS - 1) THEN F32(n, e)
    ELSE Normalize(2 * n, e - 1)

\* round-to-nearest-even of (n + s) * 2^e, where 0 <= s < 1 and s # 0 iff sticky;
\* a sticky n carries at least one bit more than the mantissa
Round(n, e, sticky) ==
    IF n < Pow2(MANTISSA_DIGITS) THEN Normalize(n, e)
    ELSE LET k == BitLen(n) - MANTISSA_DIGITS
             q == n \div Pow2(k)
             r == n % Pow2(k)
             half == Pow2(k - 1)
             up == r > half \/ (r = half /\ (sticky \/ q % 2 = 1))
             m1 == IF up THEN q + 1 ELSE q
             res == IF m1 = Pow2(MANTISSA_DIGITS)
                       THEN F32(Pow2(MANTISSA_DIGITS - 1), e + k + 1)
                       ELSE F32(m1, e + k)
         IN IF res.e > 104 THEN Inf ELSE res

\* x + y
Add(x, y) ==
    IF IsNaN(x) \/ IsNaN(y) THEN NaN
    ELSE IF IsInf(x) \/ IsInf(y) THEN Inf
    ELSE IF IsZero(x) THEN y
    ELSE IF IsZero(y) THEN x
    ELSE LET hi == IF x.e >= y.e THEN x ELSE y
             lo == IF x.e >= y.e THEN y ELSE x
             d == hi.e - lo.e
             big == 4 * hi.m
             small == IF d <= 2 THEN lo.m * Pow2(2 - d)
                      ELSE IF d - 2 >= MANTISSA_DIGITS THEN 0
                      ELSE lo.m \div Pow2(d - 2)
             sticky == IF d <= 2 THEN FALSE
                       ELSE IF d - 2 >= MANTISSA_DIGITS THEN TRUE
                       ELSE lo.m % Pow2(d - 2) # 0
         IN Round(big + small, hi.e - 2, sticky)

\* x * y: the 48-bit product of the mantissas, built from 12-bit halves
Mul(x, y) ==
    IF IsNaN(x) \/ IsNaN(y) THEN NaN
    ELSE IF IsInf(x) \/ IsInf(y)
         THEN (IF IsZero(x) \/ IsZero(y) THEN NaN ELSE Inf)
    ELSE IF IsZero(x) \/ IsZero(y) THEN Zero
    ELSE LET xh == x.m \div 4096
             xl == x.m % 4096
             yh == y.m \div 4096
             yl == y.m % 4096
             mid == xh * yl + xl * yh
             low == (mid % 4096) * 4096 + xl * yl
             high == xh * yh + mid \div 4096 + low \div Pow2(24)
             low24 == low % Pow2(24)
         IN Round(4 * high + low24 \div Pow2(22), x.e + y.e + 22,
                  low24 % Pow2(22) # 0)

RECURSIVE DivBits(_, _, _, _)
\* k more quotient bits of r / d (r < d): <<quotient, remainder>>
DivBits(r, d, k, q) ==
    IF k = 0 THEN <<q, r>>
    ELSE IF 2 * r >= d THEN DivBits(2 * r - d, d, k - 1, 2 * q + 1)
    ELSE DivBits(2 * r, d, k - 1, 2 * q)

\* x / y
Div(x, y) ==
    IF IsNaN(x) \/ IsNaN(y) THEN NaN
    ELSE IF IsInf(x) THEN (IF IsInf(y) THEN NaN ELSE Inf)
    ELSE IF IsInf(y) THEN Zero
    ELSE IF IsZero(y) THEN (IF IsZero(x) THEN NaN ELSE Inf)
    ELSE IF IsZero(x) THEN Zero
    ELSE LET qr == DivBits(x.m % y.m, y.m, MANTISSA_DIGITS + 1, x.m \div y.m)
         IN Round(qr[1], x.e - y.e - (MANTISSA_DIGITS + 1), qr[2] # 0)

\* f32::fract: x - x.trunc()
Fract(x) ==
    IF IsNaN(x) \/ IsInf(x) THEN NaN
    ELSE IF x.e >= 0 THEN Zero
    ELSE IF x.e <= -MANTISSA_DIGITS THEN x
    ELSE Normalize(x.m % Pow2(-x.e), x.e)

\* 1f32 - x, for the x that fract returns (0 <= x < 1, or NaN)
Sub1(x) ==
    IF IsNaN(x) \/ IsInf(x) THEN NaN
    ELSE IF IsZero(x) THEN One
    ELSE LET s == x.e + 26
             f == IF s >= 0 THEN x.m * Pow2(s)
                  ELSE IF -s >= MANTISSA_DIGITS THEN 0
                  ELSE x.m \div Pow2(-s)
             sticky == IF s >= 0 THEN FALSE
                       ELSE IF -s >= MANTISSA_DIGITS THEN TRUE
                       ELSE x.m % Pow2(-s) # 0
         IN Round(Pow2(26) - f - (IF sticky THEN 1 ELSE 0), -26, sticky)

\* f32::ceil
Ceil(x) ==
    IF IsNaN(x) \/ IsInf(x) THEN x
    ELSE IF x.e >= 0 \/ x.m = 0 THEN x
    ELSE IF x.e <= -MANTISSA_DIGITS THEN One
    ELSE Normalize(x.m \div Pow2(-x.e)
                   + (IF x.m % Pow2(-x.e) # 0 THEN 1 ELSE 0), 0)

\* x.is_finite() && x >= 1f32 in place of x >= 1f32
Ge1Finite(x) ==
    CASE IsNaN(x) -> FALSE
      [] IsInf(x) -> FALSE
      [] OTHER -> x.m > 0 /\ x.e >= 1 - MANTISSA_DIGITS

\* x >= 1f32
Ge1(x) ==
    CASE IsNaN(x) -> FALSE
      [] IsInf(x) -> TRUE
      [] OTHER -> x.m > 0 /\ x.e >= 1 - MANTISSA_DIGITS

\* ----------------------------------------------------------- usize values
\* a usize is [max, n]: max stands for usize::MAX = 2^64 - 1, which the
\* saturating cast of +infinity yields; otherwise the value is n
Usize(n) == [max |-> FALSE, n |-> n]
USIZE_MAX == [max |-> TRUE, n |-> 0]

\* `x as usize` of a non-negative f32: NaN is 0, too large saturates; a finite
\* stride of 2^31 or more is beyond TLC's integers and stops the run with an
\* overflow error instead of being misrepresented
AsUsize(x) ==
    CASE IsNaN(x) -> Usize(0)
      [] IsInf(x) -> USIZE_MAX
      [] OTHER -> IF x.m = 0 THEN Usize(0)
                  ELSE IF x.e >= 41 THEN USIZE_MAX
                  ELSE IF x.e >= 0 THEN Usize(x.m * Pow2(x.e))
                  ELSE IF x.e <= -MANTISSA_DIGITS THEN Usize(0)
                  ELSE Usize(x.m \div Pow2(-x.e))

\* `u as f32`
AsF32(u) ==
    IF u.max THEN F32(Pow2(MANTISSA_DIGITS - 1), 41) ELSE Round(u.n, 0, FALSE)

\* --------------------------------------------- the underlying iterators
\* a slice iterator over the elements 0 .. end-1, the next one being pos;
\* an element is identified by its position in the input
Slice(n) == [pos |-> 0, end |-> n]
None == [some |-> FALSE, v |-> 0]
Some(v) == [some |-> TRUE, v |-> v]

\* ExactSizeIterator::len of an underlying iterator
IterLen(it) == it.end - it.pos

\* Iterator::next of an underlying iterator: the item and the iterator after it
IterNext(it) ==
    IF it.pos < it.end
    THEN [item |-> Some(it.pos), it |-> [it EXCEPT !.pos = it.pos + 1]]
    ELSE [item |-> None, it |-> it]

\* nth(n) taken to consume n elements, not n + 1
IterNthOffByOne(it, n) ==
    IF n.max \/ n.n >= IterLen(it) THEN [it EXCEPT !.pos = it.end]
    ELSE [it EXCEPT !.pos = it.pos + n.n]

\* the underlying iterator after nth(n), whose item next() discards
IterNth(it, n) ==
    IF n.max \/ n.n >= IterLen(it) THEN [it EXCEPT !.pos = it.end]
    ELSE [it EXCEPT !.pos = it.pos + n.n + 1]

\* checked_sub(1) in place of checked_sub(2)
CheckedSub1(u) ==
    IF u.max THEN [some |-> TRUE, v |-> USIZE_MAX]
    ELSE IF u.n >= 1 THEN [some |-> TRUE, v |-> Usize(u.n - 1)]
    ELSE [some |-> FALSE, v |-> Usize(0)]

\* usize::checked_sub(2); usize::MAX - 2 keeps the max mark, being longer
\* than any slice
CheckedSub2(u) ==
    IF u.max THEN [some |-> TRUE, v |-> USIZE_MAX]
    ELSE IF u.n >= 2 THEN [some |-> TRUE, v |-> Usize(u.n - 2)]
    ELSE [some |-> FALSE, v |-> Usize(0)]

\* ------------------------------------------------------------------ state
VARIABLES
    i, j,               \* the two inputs handed to zip_squash
    a, b,               \* ZipSquash.a, ZipSquash.b
    a_delta, b_delta,   \* ZipSquash.a_delta, ZipSquash.b_delta
    a_index, b_index,   \* ZipSquash.a_index, ZipSquash.b_index
    pc,                 \* "new", "ready", "assert_failed" or "panicked"
    ret,                \* what the last call of next returned
    out,                \* the pairs emitted so far
    a_diffs, b_diffs    \* the a_diff and b_diff of every call of next so far

vars == <<i, j, a, b, a_delta, b_delta, a_index, b_index, pc, ret, out,
          a_diffs, b_diffs>>

pulls == Len(a_diffs)

\* ------------------------------------------------------------ construction
\* the Less and Greater arms exchanged: the ratio goes to the shorter side
DeltasSwapped(la, lb) ==
    CASE la = lb -> <<One, One>>
      [] la < lb -> <<Div(AsF32(Usize(lb)), AsF32(Usize(la))), One>>
      [] la > lb -> <<One, Div(AsF32(Usize(la)), AsF32(Usize(lb)))>>

\* the match on a.len().cmp(&b.len()): <<a_delta, b_delta>>
Deltas(la, lb) ==
    CASE la = lb -> <<One, One>>
      [] la < lb -> <<One, Div(AsF32(Usize(lb)), AsF32(Usize(la)))>>
      [] la > lb -> <<Div(AsF32(Usize(la)), AsF32(Usize(lb))), One>>

Init ==
    /\ i \in {Slice(n) : n \in 0..MaxLen}
    /\ j \in {Slice(n) : n \in 0..MaxLen}
    /\ a = i /\ b = j
    /\ a_delta = Zero /\ b_delta = Zero
    /\ a_index = Zero /\ b_index = Zero
    /\ pc = "new"
    /\ ret = <<"none">>
    /\ out = <<>>
    /\ a_diffs = <<>> /\ b_diffs = <<>>

\* the two debug_assert!s decide between "ready" and "assert_failed"
zip_squash ==
    /\ pc = "new"
    /\ LET d == Deltas(IterLen(i), IterLen(j))
       IN /\ a' = i /\ b' = j
          /\ a_delta' = d[1] /\ b_delta' = d[2]
          /\ a_index' = Zero /\ b_index' = Zero
          /\ pc' = IF Ge1(d[1]) /\ Ge1(d[2]) THEN "ready" ELSE "assert_failed"
    /\ UNCHANGED <<i, j, ret, out, a_diffs, b_diffs>>

\* -------------------------------------------------------------------- next
\* (self.a_delta / (1f32 - self.a_index.fract())).ceil() as usize
Diff(delta, index) == AsUsize(Ceil(Div(delta, Sub1(Fract(index)))))

\* self.a_index += a_diff as f32 * self.a_delta
Advance(index, diff, delta) == Add(index, Mul(AsF32(diff), delta))

\* if let Some(skip) = a_diff.checked_sub(2) { self.a.nth(skip); }
Skip(it, diff) ==
    IF CheckedSub2(diff).some THEN IterNth(it, CheckedSub2(diff).v) ELSE it

\* the match on (a, b)
Match(x, y) ==
    CASE ~x.some /\ ~y.some -> <<"None">>
      [] x.some /\ y.some -> <<"Some", x.v, y.v>>
      [] OTHER -> <<"unreachable">>

next ==
    /\ pc = "ready"
    /\ pulls < MaxPulls
    /\ LET na == IterNext(a)
           nb == IterNext(b)
           a_diff == Diff(a_delta, a_index)
           b_diff == Diff(b_delta, b_index)
           r == Match(na.item, nb.item)
       IN /\ a_index' = Advance(a_index, a_diff, a_delta)
          /\ a' = Skip(na.it, a_diff)
          /\ b_index' = Advance(b_index, b_diff, b_delta)
          /\ b' = Skip(nb.it, b_diff)
          /\ a_diffs' = Append(a_diffs, a_diff)
          /\ b_diffs' = Append(b_diffs, b_diff)
          /\ ret' = r
          /\ out' = IF r[1] = "Some" THEN Append(out, <<r[2], r[3]>>) ELSE out
          /\ pc' = IF r[1] = "unreachable" THEN "panicked" ELSE "ready"
    /\ UNCHANGED <<i, j, a_delta, b_delta>>

\* size_hint::min of two exact size hints <<lower, upper>>
size_hint_min(x, y) ==
    <<IF x[1] <= y[1] THEN x[1] ELSE y[1], IF x[2] <= y[2] THEN x[2] ELSE y[2]>>

\* the size_hint of an underlying iterator
IterSizeHint(it) == <<IterLen(it), IterLen(it)>>

\* ZipSquash::size_hint
size_hint == size_hint_min(IterSizeHint(a), IterSizeHint(b))

\* ExactSizeIterator::len of the ZipSquash
len == size_hint[1]

Next == zip_squash \/ next

Spec == Init /\ [][Next]_vars

\* ------------------------------------------------------ claim vocabulary
len_a == IterLen(i)
len_b == IterLen(j)
MinLen == IF len_a <= len_b THEN len_a ELSE len_b
Constructed == pc \in {"ready", "panicked"}
NonDegenerate == len_a >= 1 /\ len_b >= 1

RECURSIVE SumN(_)
SumN(s) == IF s = <<>> THEN 0 ELSE Head(s).n + SumN(Tail(s))

\* the remaining count of the input that had fewer (or equally many) elements
ShorterRemaining == IF len_a <= len_b THEN IterLen(a) ELSE IterLen(b)

\* ------------------------------------------------------------------ claims

\* C1: for inputs with len_a >= 1 and len_b >= 1, no call of next finds
\* exactly one side present: the unreachable!() branch is never reached.
C1_NeverUnreachable ==
    NonDegenerate => pc # "panicked" /\ ret # <<"unreachable">>

\* C2: for lengths 1 <= M < N (either side the longer), each of the first
\* M calls of next emits a pair and call M+1 returns None, so that exactly
\* M = min(len_a, len_b) pairs are emitted.
C2_EmitsExactlyMinPairs ==
    (Constructed /\ NonDegenerate /\ len_a # len_b) =>
        /\ pulls <= MinLen => Len(out) = pulls
        /\ pulls > MinLen => Len(out) = MinLen /\ ret = <<"None">>
        /\ (pulls = MinLen + 1) => ret = <<"None">>

\* C3: for len_a >= 1 and len_b >= 1, right after the call of next that
\* emits the last pair (a pair was just emitted and no further one can be),
\* both underlying iterators report zero remaining elements.
C3_BothConsumedAfterLastPair ==
    (NonDegenerate /\ ret[1] = "Some" /\ ~(IterLen(a) > 0 /\ IterLen(b) > 0)) =>
        IterLen(a) = 0 /\ IterLen(b) = 0

\* C4: for two inputs of equal length N >= 0 exactly N pairs are emitted,
\* the k-th being (A[k], B[k]); both strides are 1 on every call and no
\* element of either side is skipped.
C4_EqualLengthsLockstep ==
    (Constructed /\ len_a = len_b) =>
        /\ pc = "ready"
        /\ \A k \in 1..Len(out) : out[k] = <<k - 1, k - 1>>
        /\ \A k \in 1..pulls : a_diffs[k] = Usize(1) /\ b_diffs[k] = Usize(1)
        /\ pulls <= len_a => Len(out) = pulls /\ a.pos = pulls /\ b.pos = pulls
        /\ pulls > len_a => Len(out) = len_a /\ ret = <<"None">>

C4_Witness ==
    len_a = 3 /\ len_b = 3 /\ pulls = 4 /\ Len(out) = 3 /\ ret = <<"None">>

\* C5: after construction and after every call of next, the length the
\* ZipSquash reports equals the shorter input's remaining count and has
\* decreased by exactly one per emitted pair.
C5_LenMatchesShorterPace ==
    pc = "ready" =>
        /\ len = ShorterRemaining
        /\ len + Len(out) = MinLen

\* C6 (on inputs with len_a >= 1 and len_b >= 1): a call of next never
\* increases the reported length, emits a pair when the reported length is
\* positive, and returns None, without fault, when it is 0.
C6_LenZeroIffEnd ==
    [][(NonDegenerate /\ next) =>
          /\ len' <= len
          /\ len > 0 => ret'[1] = "Some"
          /\ len = 0 => ret' = <<"None">>]_vars

\* C7: for 1 <= len_short <= len_long, once the shorter side is exhausted,
\* after min(len_a, len_b) calls of next, the strides computed for each side
\* sum to that side's original length.
C7_StridesSumToLength ==
    (Constructed /\ NonDegenerate /\ pulls = MinLen) =>
        SumN(a_diffs) = len_a /\ SumN(b_diffs) = len_b

\* C8 as claimed: for len_a = 10 and len_b = 2 exactly 2 pairs are emitted,
\* a_diff is 5 and b_diff is 1 on each call, and the pairs are (A[4], B[0])
\* and (A[9], B[1]).
C8_Original ==
    (Constructed /\ len_a = 10 /\ len_b = 2) =>
        /\ pulls >= 2 => out = << <<4, 0>>, <<9, 1>> >>
        /\ pulls >= 3 => ret = <<"None">>
        /\ \A k \in 1..(IF pulls < 2 THEN pulls ELSE 2) :
              a_diffs[k] = Usize(5) /\ b_diffs[k] = Usize(1)

\* C8 amended: for len_a = 10 and len_b = 2 exactly 2 pairs are emitted,
\* a_diff is 5 and b_diff is 1 on each call, and the pairs are (A[0], B[0])
\* and (A[5], B[1]): the element of the longer side is the first of its
\* stride.
C8_FirstOfEachStride ==
    (Constructed /\ len_a = 10 /\ len_b = 2) =>
        /\ pc = "ready"
        /\ pulls = 1 => out = << <<0, 0>> >>
        /\ pulls >= 2 => out = << <<0, 0>>, <<5, 1>> >>
        /\ pulls >= 3 => ret = <<"None">>
        /\ \A k \in 1..(IF pulls < 2 THEN pulls ELSE 2) :
              a_diffs[k] = Usize(5) /\ b_diffs[k] = Usize(1)

C8_Witness ==
    /\ len_a = 10 /\ len_b = 2 /\ pulls = 3
    /\ out = << <<0, 0>>, <<5, 1>> >> /\ ret = <<"None">>

\* C9: the side with fewer or equally many elements is never skipped: its
\* stride is 1 on every call and its index keeps a zero fractional part, one
\* of its elements is consumed per call while any remain, and the k-th
\* emitted pair carries its k-th element; only a strictly longer side has a
\* stride other than 1.
C9_ShorterSideNeverSkipped ==
    Constructed =>
        /\ len_a <= len_b =>
              /\ \A k \in 1..pulls : a_diffs[k] = Usize(1)
              /\ Fract(a_index) = Zero
              /\ a.pos = (IF pulls < len_a THEN pulls ELSE len_a)
              /\ \A k \in 1..Len(out) : out[k][1] = k - 1
        /\ len_b <= len_a =>
              /\ \A k \in 1..pulls : b_diffs[k] = Usize(1)
              /\ Fract(b_index) = Zero
              /\ b.pos = (IF pulls < len_b THEN pulls ELSE len_b)
              /\ \A k \in 1..Len(out) : out[k][2] = k - 1

C9_Witness ==
    /\ len_a = 3 /\ len_b = 7 /\ pulls = 3
    /\ out = << <<0, 0>>, <<1, 3>>, <<2, 6>> >>
    /\ b_diffs = <<Usize(3), Usize(3), Usize(3)>>

\* C10: construction fails for no pair of lengths, a zero length included;
\* with both inputs empty both deltas are 1.0 and the first call of next
\* returns None without fault; with exactly one input empty no pair is ever
\* emitted and the first call of next ends in the unreachable!() fault.
C10_ZeroLengths ==
    /\ pc # "assert_failed"
    /\ (Constructed /\ len_a = 0 /\ len_b = 0) =>
          /\ a_delta = One /\ b_delta = One
          /\ pc = "ready"
          /\ pulls >= 1 => ret = <<"None">>
    /\ (Constructed /\ (len_a = 0) # (len_b = 0)) =>
          /\ out = <<>>
          /\ pulls >= 1 => pulls = 1 /\ pc = "panicked" /\ ret = <<"unreachable">>

C10_Witness ==
    /\ len_a = 0 /\ len_b = 5 /\ pc = "panicked" /\ pulls = 1
    /\ b_delta = Inf /\ b_diffs = <<USIZE_MAX>>

====
